---- MODULE Spec2Model ----
(***************************************************************************)
(* A model of the portfolio bot's workflow: the LangGraph built by         *)
(* create_graph (router -> {retriever, tool_agent, response_agent} ->      *)
(* response_agent -> END), the four node functions, the NodeState          *)
(* reducers, the process-wide vector-store singleton and PortfolioBot's    *)
(* initialize/chat.                                                        *)
(*                                                                         *)
(* Text built by joining lines with "\n" is modelled as the sequence of    *)
(* its lines; the empty text is the empty sequence.  Python's None is the  *)
(* value NONE.  External services (classification, generation, ChromaDB)   *)
(* answer nondeterministically: each call either fails or returns one of   *)
(* a small set of values.                                                  *)
(*                                                                         *)
(* Turns are taken one at a time: a graph run reads and writes its own     *)
(* NodeState only; the process-wide state it touches is the vector-store   *)
(* singleton and the Retriever node's handle to it.                        *)
(***************************************************************************)
EXTENDS Naturals, Sequences, FiniteSets, TLC

VARIABLES
    vs,        \* vectorstore._vector_store: "none", "uninit" (_collection unset) or "ready"
    bot,       \* PortfolioBot: [initialized, graph]
    handle,    \* Retriever._vector_store is set (the node object of the compiled graph)
    pc,        \* position of the turn: "idle", a node name, "END", "raised", or "unit"
    state,     \* NodeState of the turn in flight (a dict: only the keys that are set)
    trace,     \* the nodes that have run in the turn in flight, in order
    thread,    \* thread_id argument of the chat call in flight
    last,      \* what the most recent node run did (its input, update and service calls)
    response,  \* the value the most recent chat call returned
    log,       \* per thread id: the exchanges of the completed chat calls, in order
    turns,     \* number of chat calls started
    tasks,     \* the chat calls running side by side on the event loop, per request slot
    api,       \* the FastAPI app and the ChatService: lifespan, app.state.bot, request, reply
    llm,       \* LLMManager: the ChatOpenAI instances made, the cached one, the agents' chains
    store      \* the ChromaDB collection: the ids it holds, and the latest add_documents call

vars == <<vs, bot, handle, pc, state, trace, thread, last, response, log, turns,
         tasks, api, llm, store>>

-----------------------------------------------------------------------------
(* Bounds of the model *)

MaxTurns == 2      \* chat calls per behaviour
MaxMsgs == 2       \* length of the message lists handed to a node called on its own

-----------------------------------------------------------------------------
(* Values *)

NONE == "<None>"

Truthy(x) == x # NONE /\ x # ""

RAG == "rag"
TOOL == "tool"
DIRECT == "direct"
RouteTypes == {RAG, TOOL, DIRECT}

Threads == {"default", "t1"}
UserTexts == {"", "Hello!"}
GenTexts == {"", "Hi there!"}
ToolNames == {NONE, "email", "nonexistent"}

\* Texts of 4000 and 4001 characters.
Text4000 == "<4000 characters>"
Text4001 == "<4001 characters>"

\* The fixed texts of the responder and of PortfolioBot.chat.
ErrorResponse == "I apologize, but I encountered an error generating a response. Please try again or rephrase your question."
NoResponse == "I couldn't generate a response."
ChatError == "I encountered an error processing your message. Please try again."

\* len(text)
MessageLen(m) ==
    CASE m = "" -> 0
      [] m = "Hello!" -> 6
      [] m = "Hi there!" -> 9
      [] m = NoResponse -> 31
      [] m = ChatError -> 65
      [] m = ErrorResponse -> 106
      [] m = Text4000 -> 4000
      [] m = Text4001 -> 4001

\* text[:100] of a text longer than that.
First100(text) ==
    CASE text = ErrorResponse ->
           "I apologize, but I encountered an error generating a response. Please try again or rephrase your que"
      [] OTHER -> "<first 100 characters of " \o text \o ">"

HumanMessage(c) == [role |-> "human", content |-> c]
AIMessage(c) == [role |-> "ai", content |-> c]

\* What the classification chain can do: fail, or return a RouteDecision.
ClsOutcomes ==
    [ok : {FALSE}, route_type : {DIRECT}, tool_name : {NONE}]
    \cup [ok : {TRUE}, route_type : RouteTypes, tool_name : ToolNames]

\* What the generation chain can do: fail, or return a text.
GenOutcomes ==
    [ok : {FALSE}, text : {""}] \cup [ok : {TRUE}, text : GenTexts]

\* Rows of a ChromaDB query result: text, metadata, distance (in thousandths).
Row1 == [text |-> "Python dev", metadata |-> [source |-> "cv.md", section |-> "skills"], distance |-> 100]
Row2 == [text |-> "Contact me", metadata |-> [source |-> "cv.md", section |-> ""], distance |-> 250]

\* What a similarity query can do: fail, or return ranked rows.
SearchOutcomes ==
    [ok : {FALSE}, rows : {<<>>}] \cup [ok : {TRUE}, rows : {<<>>, <<Row1>>, <<Row1, Row2>>}]

-----------------------------------------------------------------------------
(* NodeState and its reducers *)

Get(s, k, d) == IF k \in DOMAIN s THEN s[k] ELSE d

add_messages_replace(left, right) == right

\* The add_messages reducer on messages without ids: the new ones are appended.
add_messages(left, right) == left \o right

MergeKeepsOld(s, u) ==
    [k \in DOMAIN s \cup DOMAIN u |->
        IF k = "messages" THEN add_messages(Get(s, k, <<>>), Get(u, k, <<>>))
        ELSE IF k \in DOMAIN s THEN s[k] ELSE u[k]]

MergeDropsUnnamed(s, u) ==
    [k \in (DOMAIN s \cap {"messages"}) \cup DOMAIN u |->
        IF k = "messages" THEN add_messages(Get(s, k, <<>>), Get(u, k, <<>>))
        ELSE u[k]]

\* Folding a node's partial update into the state, field by field.
Merge(s, u) ==
    [k \in DOMAIN s \cup DOMAIN u |->
        IF k \in DOMAIN u
        THEN IF k = "messages" THEN add_messages(Get(s, k, <<>>), u[k]) ELSE u[k]
        ELSE s[k]]

Max(S) == CHOOSE x \in S : \A y \in S : y <= x

\* for msg in reversed(messages): if isinstance(msg, HumanMessage): return msg.content
LastHuman(messages) ==
    LET idx == {i \in 1..Len(messages) : messages[i].role = "human"}
    IN  IF idx = {} THEN "" ELSE messages[Max(idx)].content

\* messages[:-1]
ButLast(messages) ==
    IF messages = <<>> THEN <<>> ELSE SubSeq(messages, 1, Len(messages) - 1)

\* messages[-n:]
LastN(messages, n) ==
    IF Len(messages) <= n THEN messages
    ELSE SubSeq(messages, Len(messages) - n + 1, Len(messages))

-----------------------------------------------------------------------------
(* Router.run *)

RouterWindow == 4
ContextCut == 100
NoContext == "No previous context"

\* text[:n]
Cut(text, n) == IF MessageLen(text) <= n THEN text ELSE First100(text)

\* Router._build_context: one line per message of messages[-max_messages:].
BuildContext(messages) ==
    LET recent == LastN(messages, RouterWindow)
    IN  [i \in 1..Len(recent) |->
            (IF recent[i].role = "human" THEN "User" ELSE "Assistant")
            \o ": " \o Cut(recent[i].content, ContextCut)]

\* The variables handed to the classification chain.
ClassificationInput(s) ==
    LET messages == Get(s, "messages", <<>>)
        context == BuildContext(ButLast(messages))
    IN  [query |-> LastHuman(messages),
         context |-> IF context = <<>> THEN <<NoContext>> ELSE context]

RouterFallbackBroken == [route_type |-> RAG]

\* The update the router returns when it does not classify, or classification fails.
RouterFallback == [route_type |-> DIRECT]

RouterRunNoGuard(s, d) ==
    LET messages == Get(s, "messages", <<>>)
    IN  IF messages = <<>>
        THEN [update |-> RouterFallback, cls_called |-> FALSE]
        ELSE IF ~d.ok
        THEN [update |-> RouterFallback, cls_called |-> TRUE]
        ELSE [update |-> IF d.route_type = TOOL /\ Truthy(d.tool_name)
                         THEN [route_type |-> d.route_type, tool_name |-> d.tool_name]
                         ELSE [route_type |-> d.route_type],
              cls_called |-> TRUE]

RouterRunCopiesToolName(s, d) ==
    LET messages == Get(s, "messages", <<>>)
        query == LastHuman(messages)
    IN  IF messages = <<>>
        THEN [update |-> RouterFallback, cls_called |-> FALSE]
        ELSE IF query = ""
        THEN [update |-> RouterFallback, cls_called |-> FALSE]
        ELSE IF ~d.ok
        THEN [update |-> RouterFallback, cls_called |-> TRUE]
        ELSE [update |-> IF Truthy(d.tool_name)
                         THEN [route_type |-> d.route_type, tool_name |-> d.tool_name]
                         ELSE [route_type |-> d.route_type],
              cls_called |-> TRUE]

\* Router.run(state) when the classification chain behaves as d: the update
\* returned, and whether the chain was invoked.
RouterRun(s, d) ==
    LET messages == Get(s, "messages", <<>>)
        query == LastHuman(messages)
    IN  IF messages = <<>>
        THEN [update |-> RouterFallback, cls_called |-> FALSE]
        ELSE IF query = ""
        THEN [update |-> RouterFallback, cls_called |-> FALSE]
        ELSE IF ~d.ok
        THEN [update |-> RouterFallback, cls_called |-> TRUE]
        ELSE [update |-> IF d.route_type = TOOL /\ Truthy(d.tool_name)
                         THEN [route_type |-> d.route_type, tool_name |-> d.tool_name]
                         ELSE [route_type |-> d.route_type],
              cls_called |-> TRUE]

-----------------------------------------------------------------------------
(* The graph of create_graph *)

Nodes == {"router", "retriever", "response_agent", "tool_agent"}

EntryNode == "router"

\* lambda state: state.get("route_type", RouteType.DIRECT).value
RouteLabel(s) == Get(s, "route_type", DIRECT)

\* The label table of the conditional edge out of the router.
RouteTable(label) ==
    CASE label = RAG -> "retriever"
      [] label = TOOL -> "tool_agent"
      [] label = DIRECT -> "response_agent"

\* The keys of the label table of the conditional edge.
RouteTableLabels == {RAG, TOOL, DIRECT}

\* The nodes add_conditional_edges was called for.
ConditionalSources == {"router"}

\* The nodes add_edge was called for (START aside).
StaticSources == {"retriever", "tool_agent", "response_agent"}

StaticEdgeUnregistered(node) ==
    CASE node = "retriever" -> "responder"
      [] node = "tool_agent" -> "response_agent"
      [] node = "response_agent" -> "END"

StaticEdgeSkipsResponder(node) ==
    CASE node = "retriever" -> "response_agent"
      [] node = "tool_agent" -> "END"
      [] node = "response_agent" -> "END"

StaticEdgeChained(node) ==
    CASE node = "retriever" -> "tool_agent"
      [] node = "tool_agent" -> "response_agent"
      [] node = "response_agent" -> "END"

\* The static edges.
StaticEdge(node) ==
    CASE node = "retriever" -> "response_agent"
      [] node = "tool_agent" -> "response_agent"
      [] node = "response_agent" -> "END"

\* The node that follows `node` when the state is s.
NextNode(node, s) ==
    IF node = "router" THEN RouteTable(RouteLabel(s)) ELSE StaticEdge(node)

AfterNodeStale(node, s, u) == NextNode(node, s)

\* One scheduler step: the node's update u is folded into s, then the outgoing
\* edge is resolved against the merged state.
AfterNode(node, s, u) == NextNode(node, Merge(s, u))

-----------------------------------------------------------------------------
(* The vector store singleton and Retriever.run *)

\* get_vector_store() when the singleton is v and ChromaDB is reachable or not:
\* the singleton afterwards, whether the call raised, and whether the backend
\* was contacted (VectorStore.initialize connects and fetches the collection).
\* A failed initialize leaves the VectorStore() object in the global.
GetVectorStore(v, chromaUp) ==
    IF v = "none"
    THEN IF chromaUp
         THEN [vs |-> "ready", raised |-> FALSE, contacted |-> TRUE]
         ELSE [vs |-> "uninit", raised |-> TRUE, contacted |-> TRUE]
    ELSE [vs |-> v, raised |-> FALSE, contacted |-> FALSE]

FormatResultsReversed(rows) ==
    [i \in 1..Len(rows) |->
        [content |-> rows[Len(rows) + 1 - i].text,
         metadata |-> rows[Len(rows) + 1 - i].metadata,
         score |-> rows[Len(rows) + 1 - i].distance]]

\* The documents similarity_search builds from the rows of a query result.
FormatResults(rows) ==
    [i \in 1..Len(rows) |->
        [content |-> rows[i].text, metadata |-> rows[i].metadata, score |-> rows[i].distance]]

\* _extract_query
ExtractQuery(messages) == LastHuman(messages)

RetrieverRunUnguarded(s, h, v, chromaUp, res) ==
    LET g == IF h THEN [vs |-> v, raised |-> FALSE, contacted |-> FALSE]
             ELSE GetVectorStore(v, chromaUp)
        query == ExtractQuery(Get(s, "messages", <<>>))
        base == [vs |-> g.vs, handle |-> ~g.raised, raised |-> g.raised,
                 contacted |-> g.contacted, queried |-> FALSE, failed |-> g.raised,
                 update |-> <<>>]
    IN  IF g.raised THEN base
        ELSE IF query = "" THEN [base EXCEPT !.update = [documents |-> <<>>]]
        ELSE IF g.vs # "ready"
        THEN [base EXCEPT !.raised = TRUE, !.failed = TRUE]
        ELSE IF ~res.ok
        THEN [base EXCEPT !.raised = TRUE, !.failed = TRUE, !.queried = TRUE]
        ELSE [base EXCEPT !.queried = TRUE,
                          !.update = [documents |-> FormatResults(res.rows)]]

\* Retriever.run(state) on a Retriever whose handle is set (h) or not, with the
\* singleton v, ChromaDB reachable or not and the similarity query behaving as
\* res.  The handle is obtained before the try block; the query runs inside it.
\*   vs, handle: the singleton and the Retriever's handle afterwards
\*   raised:     the call raised instead of returning an update
\*   contacted:  initialize contacted the backend;  queried: a query was issued
\*   failed:     obtaining the handle or the search failed
RetrieverRun(s, h, v, chromaUp, res) ==
    LET g == IF h THEN [vs |-> v, raised |-> FALSE, contacted |-> FALSE]
             ELSE GetVectorStore(v, chromaUp)
        query == ExtractQuery(Get(s, "messages", <<>>))
        base == [vs |-> g.vs, handle |-> ~g.raised, raised |-> g.raised,
                 contacted |-> g.contacted, queried |-> FALSE, failed |-> g.raised,
                 update |-> <<>>]
    IN  IF g.raised THEN base
        ELSE IF query = "" THEN [base EXCEPT !.update = [documents |-> <<>>]]
        ELSE IF g.vs # "ready"
        THEN \* similarity_search raises RuntimeError (not initialized): caught
             [base EXCEPT !.failed = TRUE, !.update = [documents |-> <<>>]]
        ELSE IF ~res.ok
        THEN [base EXCEPT !.failed = TRUE, !.queried = TRUE,
                          !.update = [documents |-> <<>>]]
        ELSE [base EXCEPT !.queried = TRUE,
                          !.update = [documents |-> FormatResults(res.rows)]]

-----------------------------------------------------------------------------
(* ToolAgent.run *)

\* str(tool_name) inside the f-string
Str(x) == IF x = NONE THEN "None" ELSE x

EmailPlaceholder == "EMAIL TOOL (Placeholder)"
CalendarPlaceholder == "CALENDAR TOOL (Placeholder)"

ToolAgentRun(s) ==
    LET tool_name == Get(s, "tool_name", NONE)
    IN  [update |->
            [tool_result |->
                CASE tool_name = "email" -> EmailPlaceholder
                  [] tool_name = "calendar" -> CalendarPlaceholder
                  [] OTHER -> "Unknown tool: " \o Str(tool_name)
                              \o ". Available tools: email, calendar"]]

-----------------------------------------------------------------------------
(* ResponseAgent.run *)

NoDocuments == "No relevant documents found."
NoTools == "No tools were used."
NoHistory == "No previous conversation."

HistoryWindow == 6

\* The lines one document contributes: header, content and the blank line.
DocumentLines(i, doc) ==
    LET section == Get(Get(doc, "metadata", <<>>), "section", "")
        header == "[Document " \o ToString(i) \o "]"
                  \o (IF section # "" THEN " (" \o section \o ")" ELSE "")
    IN  <<header, Get(doc, "content", ""), "">>

RECURSIVE FormatFrom(_, _)
FormatFrom(documents, i) ==
    IF i > Len(documents) THEN <<>>
    ELSE DocumentLines(i, documents[i]) \o FormatFrom(documents, i + 1)

FormatDocumentsFirstOnly(documents) ==
    IF documents = <<>> THEN <<>> ELSE DocumentLines(1, documents[1])

\* _format_documents
FormatDocuments(documents) == FormatFrom(documents, 1)

\* _format_conversation
FormatConversation(messages) ==
    LET recent == LastN(messages, HistoryWindow)
    IN  [i \in 1..Len(recent) |->
            (IF recent[i].role = "human" THEN "User" ELSE "Assistant")
            \o ": " \o recent[i].content]

GenerationInputRaw(s) ==
    LET messages == Get(s, "messages", <<>>)
        tool_result == Get(s, "tool_result", NONE)
    IN  [query |-> LastHuman(messages),
         context |-> FormatDocuments(Get(s, "documents", <<>>)),
         tool_results |-> IF tool_result = NONE THEN "" ELSE tool_result,
         conversation_history |-> FormatConversation(ButLast(messages))]

\* The variables handed to the generation chain.
GenerationInput(s) ==
    LET messages == Get(s, "messages", <<>>)
        context == FormatDocuments(Get(s, "documents", <<>>))
        tool_result == Get(s, "tool_result", NONE)
        history == FormatConversation(ButLast(messages))
    IN  [query |-> LastHuman(messages),
         context |-> IF context = <<>> THEN <<NoDocuments>> ELSE context,
         tool_results |-> IF Truthy(tool_result) THEN tool_result ELSE NoTools,
         conversation_history |-> IF history = <<>> THEN <<NoHistory>> ELSE history]

ResponseAgentRunBadFallback(s, gen) ==
    LET text == IF gen.ok THEN gen.text ELSE ErrorResponse
    IN  [update |-> [messages |-> <<AIMessage(text)>>,
                     final_response |-> IF gen.ok THEN text ELSE ""],
         gen_call |-> GenerationInput(s)]

ResponseAgentRunFullList(s, gen) ==
    LET text == IF gen.ok THEN gen.text ELSE ErrorResponse
    IN  [update |-> [messages |-> Get(s, "messages", <<>>) \o <<AIMessage(text)>>,
                     final_response |-> text],
         gen_call |-> GenerationInput(s)]

\* ResponseAgent.run(state) when the generation chain behaves as gen.
ResponseAgentRun(s, gen) ==
    LET text == IF gen.ok THEN gen.text ELSE ErrorResponse
    IN  [update |-> [messages |-> <<AIMessage(text)>>, final_response |-> text],
         gen_call |-> GenerationInput(s)]

-----------------------------------------------------------------------------
(* PortfolioBot and the turn *)

NoRun ==
    [node |-> "none", input |-> <<>>, update |-> <<>>, raised |-> FALSE,
     cls_called |-> FALSE, contacted |-> FALSE, queried |-> FALSE,
     failed |-> FALSE, gen_call |-> <<>>, classified |-> NONE,
     cls_tool |-> NONE, rows |-> <<>>, cls_input |-> <<>>]

EmptyLog == [t \in Threads |-> <<>>]

\* The requests the server handles side by side, each an asyncio task.
Slots == {"a", "b"}

IdleTask ==
    [pc |-> "idle", thread |-> "default", message |-> "", state |-> <<>>,
     alone |-> <<>>]

NoTasks == [i \in Slots |-> IdleTask]

ChatInputSharedHistory(message, tid) ==
    [messages |-> add_messages(log["default"] \o log["t1"],
                               <<HumanMessage(message)>>)]

NoOut ==
    [status |-> "none", response |-> NONE, thread_id |-> NONE, events |-> <<>>,
     error |-> NONE, nodes |-> <<>>, twin |-> NONE]

NoApi ==
    [lifespan |-> "none", app_bot |-> FALSE, service |-> "none",
     entry |-> "none", message |-> "", given |-> NONE, thread_id |-> NONE,
     entered |-> FALSE,
     fault |-> NONE, out |-> NoOut, got |-> "none"]

NoLlm ==
    [models |-> <<>>, cached |-> 0, router |-> 0, responder |-> 0, built |-> <<>>]

NoCall ==
    [status |-> "none", reached |-> FALSE, ids |-> {}, before |-> {},
     chunks |-> 0, returned |-> 0]

NoStore == [ids |-> {}, adds |-> 0, call |-> NoCall]

ChatInputStaleFields(message, tid) ==
    [messages |-> <<HumanMessage(message)>>, route_type |-> RAG,
     documents |-> FormatResults(<<Row1>>)]

ChatInputWithMemory(message, tid) ==
    [messages |-> add_messages(log[tid], <<HumanMessage(message)>>)]

\* The state a chat call's graph run starts from: the input state
\* {"messages": [HumanMessage(message)]} folded into an empty NodeState.  The
\* graph is compiled without a checkpointer and thread_id is not passed on.
ChatInput(message, tid) ==
    Merge(<<>>, [messages |-> <<HumanMessage(message)>>])

Init ==
    /\ vs = "none"
    /\ bot = [initialized |-> FALSE, graph |-> FALSE]
    /\ handle = FALSE
    /\ pc = "idle"
    /\ state = <<>>
    /\ trace = <<>>
    /\ thread = "default"
    /\ last = NoRun
    /\ response = NONE
    /\ log = EmptyLog
    /\ turns = 0
    /\ tasks = NoTasks
    /\ api = NoApi
    /\ llm = NoLlm
    /\ store = NoStore

\* PortfolioBot.initialize (a no-op once initialized).  create_graph builds a
\* new Retriever, whose handle is unset.
Initialize(chromaUp) ==
    /\ pc = "idle"
    /\ ~bot.initialized
    /\ LET g == GetVectorStore(vs, chromaUp)
       IN  /\ vs' = g.vs
           /\ IF g.raised
              THEN UNCHANGED <<bot, handle>>
              ELSE /\ bot' = [initialized |-> TRUE, graph |-> TRUE]
                   /\ handle' = FALSE
    /\ UNCHANGED <<pc, state, trace, thread, last, response, log, turns, tasks,
                   api, llm,
                   store>>

\* PortfolioBot.chat up to the start of the graph run.
ChatStart(message, tid) ==
    /\ pc = "idle"
    /\ bot.initialized
    /\ turns < MaxTurns
    /\ state' = ChatInput(message, tid)
    /\ pc' = EntryNode
    /\ trace' = <<>>
    /\ thread' = tid
    /\ last' = NoRun
    /\ turns' = turns + 1
    /\ UNCHANGED <<vs, bot, handle, response, log, tasks,
                   api, llm,
                   store>>

StepRouter(d) ==
    /\ pc = "router"
    /\ LET r == RouterRun(state, d)
       IN  /\ state' = Merge(state, r.update)
           /\ pc' = AfterNode("router", state, r.update)
           /\ last' = [NoRun EXCEPT !.node = "router", !.input = state,
                                    !.update = r.update,
                                    !.cls_called = r.cls_called,
                                    !.failed = r.cls_called /\ ~d.ok,
                                    !.classified = IF r.cls_called /\ d.ok
                                                   THEN d.route_type ELSE NONE,
                                    !.cls_tool = IF r.cls_called /\ d.ok
                                                 THEN d.tool_name ELSE NONE,
                                    !.cls_input = IF r.cls_called
                                                  THEN <<ClassificationInput(state)>>
                                                  ELSE <<>>]
    /\ trace' = Append(trace, "router")
    /\ UNCHANGED <<vs, bot, handle, thread, response, log, turns, tasks,
                   api, llm,
                   store>>

StepRetriever(chromaUp, res) ==
    /\ pc = "retriever"
    /\ LET r == RetrieverRun(state, handle, vs, chromaUp, res)
       IN  /\ vs' = r.vs
           /\ handle' = r.handle
           /\ state' = IF r.raised THEN state ELSE Merge(state, r.update)
           /\ pc' = IF r.raised THEN "raised"
                    ELSE AfterNode("retriever", state, r.update)
           /\ last' = [NoRun EXCEPT !.node = "retriever", !.input = state,
                                    !.update = r.update, !.raised = r.raised,
                                    !.contacted = r.contacted,
                                    !.queried = r.queried, !.failed = r.failed,
                                    !.rows = IF r.queried /\ ~r.failed
                                             THEN res.rows ELSE <<>>]
    /\ trace' = Append(trace, "retriever")
    /\ UNCHANGED <<bot, thread, response, log, turns, tasks,
                   api, llm,
                   store>>

StepToolAgent ==
    /\ pc = "tool_agent"
    /\ LET r == ToolAgentRun(state)
       IN  /\ state' = Merge(state, r.update)
           /\ pc' = AfterNode("tool_agent", state, r.update)
           /\ last' = [NoRun EXCEPT !.node = "tool_agent", !.input = state,
                                    !.update = r.update]
    /\ trace' = Append(trace, "tool_agent")
    /\ UNCHANGED <<vs, bot, handle, thread, response, log, turns, tasks,
                   api, llm,
                   store>>

StepResponder(gen) ==
    /\ pc = "response_agent"
    /\ LET r == ResponseAgentRun(state, gen)
       IN  /\ state' = Merge(state, r.update)
           /\ pc' = AfterNode("response_agent", state, r.update)
           /\ last' = [NoRun EXCEPT !.node = "response_agent", !.input = state,
                                    !.update = r.update, !.failed = ~gen.ok,
                                    !.gen_call = <<r.gen_call>>]
    /\ trace' = Append(trace, "response_agent")
    /\ UNCHANGED <<vs, bot, handle, thread, response, log, turns, tasks,
                   api, llm,
                   store>>

\* The end of PortfolioBot.chat: the final_response of the result, or the
\* fixed error text when the graph run raised.
ChatReturn ==
    /\ pc \in {"END", "raised"}
    /\ response' = IF pc = "END" THEN Get(state, "final_response", NoResponse)
                   ELSE ChatError
    /\ log' = [log EXCEPT ![thread] =
                  @ \o <<state.messages[1], AIMessage(response')>>]
    /\ pc' = "idle"
    /\ state' = <<>>
    /\ trace' = <<>>
    /\ last' = NoRun
    /\ UNCHANGED <<vs, bot, handle, thread, turns, tasks,
                   api, llm,
                   store>>

TurnStep ==
    \/ \E d \in ClsOutcomes : StepRouter(d)
    \/ \E up \in BOOLEAN, res \in SearchOutcomes : StepRetriever(up, res)
    \/ StepToolAgent
    \/ \E gen \in GenOutcomes : StepResponder(gen)
    \/ ChatReturn

Next ==
    \/ \E up \in BOOLEAN : Initialize(up)
    \/ \E m \in UserTexts, tid \in Threads : ChatStart(m, tid)
    \/ TurnStep

Spec == Init /\ [][Next]_vars

\* The event loop resumes a turn whenever its pending service call has
\* returned or failed.
LiveSpec == Spec /\ WF_vars(TurnStep)

-----------------------------------------------------------------------------
(* Chat calls side by side.  Each request is a task of the one event loop; a
   task gives way at every await (the classification, search and generation
   calls), so the node runs of different calls interleave.  All calls share
   the PortfolioBot, its compiled graph with the one Retriever object, and
   the vector store singleton; each graph.ainvoke owns its NodeState.  A
   task's alone field replays its turn in a process where no other call has
   run since PortfolioBot.initialize (the Retriever handle still unset), with
   the same answers from the services. *)

InFlight(i) == tasks[i].pc # "idle"

TaskStart(i, message, tid) ==
    /\ bot.initialized
    /\ ~InFlight(i)
    /\ turns < MaxTurns
    /\ tasks' = [tasks EXCEPT ![i] =
                    [pc |-> EntryNode, thread |-> tid, message |-> message,
                     state |-> ChatInput(message, tid),
                     alone |-> [messages |-> <<HumanMessage(message)>>]]]
    /\ turns' = turns + 1
    /\ UNCHANGED <<vs, bot, handle, pc, state, trace, thread, last, response, log,
                   api, llm,
                   store>>

TaskRouter(i, d) ==
    /\ tasks[i].pc = "router"
    /\ LET r == RouterRun(tasks[i].state, d)
           ra == RouterRun(tasks[i].alone, d)
       IN  tasks' = [tasks EXCEPT
                        ![i].state = Merge(@, r.update),
                        ![i].pc = AfterNode("router", tasks[i].state, r.update),
                        ![i].alone = Merge(@, ra.update)]
    /\ UNCHANGED <<vs, bot, handle, pc, state, trace, thread, last, response, log, turns,
                   api, llm,
                   store>>

TaskRetriever(i, chromaUp, res) ==
    /\ tasks[i].pc = "retriever"
    /\ LET r == RetrieverRun(tasks[i].state, handle, vs, chromaUp, res)
           ra == RetrieverRun(tasks[i].alone, FALSE, vs, chromaUp, res)
       IN  /\ vs' = r.vs
           /\ handle' = r.handle
           /\ tasks' = [tasks EXCEPT
                           ![i].state = IF r.raised THEN @ ELSE Merge(@, r.update),
                           ![i].pc = IF r.raised THEN "raised"
                                     ELSE AfterNode("retriever", tasks[i].state, r.update),
                           ![i].alone = IF ra.raised THEN @ ELSE Merge(@, ra.update)]
    /\ UNCHANGED <<bot, pc, state, trace, thread, last, response, log, turns,
                   api, llm,
                   store>>

TaskToolAgent(i) ==
    /\ tasks[i].pc = "tool_agent"
    /\ LET r == ToolAgentRun(tasks[i].state)
           ra == ToolAgentRun(tasks[i].alone)
       IN  tasks' = [tasks EXCEPT
                        ![i].state = Merge(@, r.update),
                        ![i].pc = AfterNode("tool_agent", tasks[i].state, r.update),
                        ![i].alone = Merge(@, ra.update)]
    /\ UNCHANGED <<vs, bot, handle, pc, state, trace, thread, last, response, log, turns,
                   api, llm,
                   store>>

TaskResponder(i, gen) ==
    /\ tasks[i].pc = "response_agent"
    /\ LET r == ResponseAgentRun(tasks[i].state, gen)
           ra == ResponseAgentRun(tasks[i].alone, gen)
       IN  tasks' = [tasks EXCEPT
                        ![i].state = Merge(@, r.update),
                        ![i].pc = AfterNode("response_agent", tasks[i].state, r.update),
                        ![i].alone = Merge(@, ra.update)]
    /\ UNCHANGED <<vs, bot, handle, pc, state, trace, thread, last, response, log, turns,
                   api, llm,
                   store>>

\* What PortfolioBot.chat returns for a finished graph run.
ChatResult(p, s) ==
    IF p = "END" THEN Get(s, "final_response", NoResponse) ELSE ChatError

TaskReturn(i) ==
    /\ tasks[i].pc \in {"END", "raised"}
    /\ log' = [log EXCEPT ![tasks[i].thread] =
                  @ \o <<HumanMessage(tasks[i].message),
                         AIMessage(ChatResult(tasks[i].pc, tasks[i].state))>>]
    /\ tasks' = [tasks EXCEPT ![i] = IdleTask]
    /\ UNCHANGED <<vs, bot, handle, pc, state, trace, thread, last, response, turns,
                   api, llm,
                   store>>

ConcNext ==
    \/ \E up \in BOOLEAN : Initialize(up)
    \/ \E i \in Slots, m \in UserTexts, tid \in Threads : TaskStart(i, m, tid)
    \/ \E i \in Slots, d \in ClsOutcomes : TaskRouter(i, d)
    \/ \E i \in Slots, up \in BOOLEAN, res \in SearchOutcomes : TaskRetriever(i, up, res)
    \/ \E i \in Slots : TaskToolAgent(i)
    \/ \E i \in Slots, gen \in GenOutcomes : TaskResponder(i, gen)
    \/ \E i \in Slots : TaskReturn(i)

ConcSpec == Init /\ [][ConcNext]_vars

-----------------------------------------------------------------------------
(* The entry points: the FastAPI app (lifespan, POST /chat, POST /chat/stream),
   ChatService (initialize, send_message, stream_message) and the
   PortfolioBot's own chat and stream_chat.  A process
   builds its PortfolioBot either in the lifespan or in ChatService.initialize.
   One request is handled at a time here; its graph run takes the node steps
   of the turn above. *)

\* Message texts of a request.
RequestTexts == UserTexts \cup {Text4000, Text4001}

MaxMessageLength == 4000
FieldMinLength == 1
FieldMaxLength == 4000

EmptyMessageError == "Message cannot be empty"
LongMessageError == "Message too long (max 4000 characters)"

ValidateMessageNoLimit(m) ==
    IF ~Truthy(m) THEN EmptyMessageError ELSE NONE

\* ChatService._validate_message: the text of the ValueError, or None.
ValidateMessage(m) ==
    IF ~Truthy(m) THEN EmptyMessageError
    ELSE IF MessageLen(m) > MaxMessageLength THEN LongMessageError
    ELSE NONE

\* ChatRequest.message: Field(..., min_length=1, max_length=4000)
FieldValid(m) == MessageLen(m) >= FieldMinLength /\ MessageLen(m) <= FieldMaxLength

\* The thread_id of a request: absent, null, or a string.
MISSING == "<missing>"
ThreadInputs == {MISSING, NONE, "", "t1"}

\* thread_id: Optional[str] = Field(default="default") and the
\* thread_id: str = "default" parameters: the default stands in only for an
\* absent value.
RequestThreadId(x) == IF x = MISSING THEN "default" ELSE x

Routes == {"/chat", "/chat/stream"}
ServiceCalls == {"send_message", "stream_message"}
BotCalls == {"chat", "stream_chat"}
Entries == Routes \cup ServiceCalls \cup BotCalls

NotInitializedError == "PortfolioBot not initialized. Call initialize() first."
ServiceNotInitializedError == "ChatService not initialized"
BotUnavailable == "Bot not initialized. Server may still be starting up."
ResponseModelError == "1 validation error for ChatResponse thread_id"
StreamError == "I encountered an error. Please try again."
FaultText == "graph run failed"

LifespanSwallows(raised) == [lifespan |-> "serving", app_bot |-> TRUE]

\* What the lifespan leaves behind: it re-raises a failed initialize() and
\* sets app.state.bot only after a completed one.
LifespanResult(raised) ==
    IF raised THEN [lifespan |-> "failed", app_bot |-> FALSE]
    ELSE [lifespan |-> "serving", app_bot |-> TRUE]

\* lifespan startup
Startup(chromaUp) ==
    /\ pc = "idle"
    /\ api.lifespan = "none"
    /\ api.service = "none"
    /\ LET g == GetVectorStore(vs, chromaUp)
           r == LifespanResult(g.raised)
       IN  /\ vs' = g.vs
           /\ bot' = IF g.raised THEN [initialized |-> FALSE, graph |-> FALSE]
                     ELSE [initialized |-> TRUE, graph |-> TRUE]
           /\ api' = [api EXCEPT !.lifespan = r.lifespan, !.app_bot = r.app_bot]
    /\ handle' = FALSE
    /\ UNCHANGED <<pc, state, trace, thread, last, response, log, turns, tasks, llm,
                   store>>

\* ChatService.initialize: a new PortfolioBot, then its initialize().
ServiceInitialize(chromaUp) ==
    /\ pc = "idle"
    /\ api.lifespan = "none"
    /\ api.service # "ready"
    /\ LET g == GetVectorStore(vs, chromaUp)
       IN  /\ vs' = g.vs
           /\ bot' = IF g.raised THEN [initialized |-> FALSE, graph |-> FALSE]
                     ELSE [initialized |-> TRUE, graph |-> TRUE]
           /\ api' = [api EXCEPT !.service = IF g.raised THEN "created" ELSE "ready"]
    /\ handle' = FALSE
    /\ UNCHANGED <<pc, state, trace, thread, last, response, log, turns, tasks, llm,
                   store>>

AdmissionNoInitCheck(entry, m) ==
    IF entry \in Routes
    THEN IF ~FieldValid(m) THEN [status |-> "422", error |-> NONE]
         ELSE IF ~api.app_bot THEN [status |-> "503", error |-> BotUnavailable]
         ELSE [status |-> "enter", error |-> NONE]
    ELSE IF entry \in BotCalls
    THEN [status |-> "enter", error |-> NONE]
    ELSE IF ValidateMessage(m) # NONE
         THEN [status |-> "ValueError", error |-> ValidateMessage(m)]
         ELSE [status |-> "enter", error |-> NONE]

\* get_chat_service(): the global _chat_service is api.service ("none": unset,
\* "created": a ChatService whose initialize() has not completed, "ready").
\* The global is assigned before initialize() is awaited, and a ChatService
\* found in it is returned as it is.  api.got is what the call gave its
\* caller: "raised", or the service returned.  Nothing between the test of
\* the global and the return suspends (VectorStore.initialize, create_graph
\* and the constructors make blocking calls only), so a call is one step of
\* the event loop.
GetChatService(chromaUp) ==
    /\ pc = "idle"
    /\ api.lifespan = "none"
    /\ IF api.service = "none"
       THEN LET g == GetVectorStore(vs, chromaUp)
            IN  /\ vs' = g.vs
                /\ bot' = IF g.raised THEN [initialized |-> FALSE, graph |-> FALSE]
                          ELSE [initialized |-> TRUE, graph |-> TRUE]
                /\ api' = [api EXCEPT
                              !.service = IF g.raised THEN "created" ELSE "ready",
                              !.got = IF g.raised THEN "raised" ELSE "ready"]
                /\ handle' = FALSE
       ELSE /\ api' = [api EXCEPT !.got = api.service]
            /\ UNCHANGED <<vs, bot, handle>>
    /\ UNCHANGED <<pc, state, trace, thread, last, response, log, turns, tasks, llm,
                   store>>

\* What happens to a request before the graph: "enter", or the rejection.
Admission(entry, m) ==
    IF entry \in Routes
    THEN IF ~FieldValid(m) THEN [status |-> "422", error |-> NONE]
         ELSE IF ~api.app_bot THEN [status |-> "503", error |-> BotUnavailable]
         ELSE IF ~bot.initialized
         THEN [status |-> IF entry = "/chat" THEN "500" ELSE "200",
               error |-> NotInitializedError]
         ELSE [status |-> "enter", error |-> NONE]
    ELSE IF entry \in BotCalls
    THEN IF ~bot.initialized
         THEN [status |-> "RuntimeError", error |-> NotInitializedError]
         ELSE [status |-> "enter", error |-> NONE]
    ELSE IF api.service # "ready"
         THEN [status |-> "RuntimeError", error |-> ServiceNotInitializedError]
         ELSE IF ValidateMessage(m) # NONE
         THEN [status |-> "ValueError", error |-> ValidateMessage(m)]
         ELSE IF ~bot.initialized
         THEN [status |-> "RuntimeError", error |-> NotInitializedError]
         ELSE [status |-> "enter", error |-> NONE]

\* The events of generate() when bot.stream_chat raised: the error event and
\* no [DONE].
ErrorEvents(text) == <<"data: Error: " \o text>>

Request(entry, m, x) ==
    /\ pc = "idle"
    /\ api.lifespan # "failed"
    /\ turns < MaxTurns
    /\ LET a == Admission(entry, m)
           tid == RequestThreadId(x)
           req == [api EXCEPT !.entry = entry, !.message = m, !.given = x,
                              !.thread_id = tid,
                              !.fault = NONE]
       IN  IF a.status = "enter"
           THEN /\ api' = [req EXCEPT !.entered = TRUE, !.out = NoOut]
                /\ state' = ChatInput(m, tid)
                /\ pc' = EntryNode
                /\ thread' = tid
                /\ turns' = turns + 1
           ELSE /\ api' = [req EXCEPT
                             !.entered = FALSE,
                             !.out = [NoOut EXCEPT
                                        !.status = a.status,
                                        !.error = a.error,
                                        !.events =
                                          IF entry = "/chat/stream" /\ a.status = "200"
                                          THEN ErrorEvents(a.error) ELSE <<>>]]
                /\ UNCHANGED <<state, pc, thread, turns>>
    /\ trace' = <<>>
    /\ last' = NoRun
    /\ UNCHANGED <<vs, bot, handle, response, log, tasks, llm,
                   store>>

\* graph.ainvoke / graph.astream raising out of the run (anything the nodes
\* do not catch themselves).
RunFault ==
    /\ pc \in Nodes
    /\ api.entered
    /\ pc' = "raised"
    /\ api' = [api EXCEPT !.fault = FaultText]
    /\ last' = [NoRun EXCEPT !.node = pc, !.input = state, !.raised = TRUE]
    /\ UNCHANGED <<vs, bot, handle, state, trace, thread, response, log, turns, tasks, llm,
                   store>>

StreamChunksPerNode(tr, s, p) ==
    [i \in 1..Len(tr) |-> tr[i]]
    \o (IF p = "raised" THEN <<StreamError>> ELSE <<>>)

\* PortfolioBot.stream_chat: of the per-node events of graph.astream only the
\* response_agent's final_response is yielded; a raised run yields the fixed
\* error text.
StreamChunks(tr, s, p) ==
    LET hits == SelectSeq(tr, LAMBDA n : n = "response_agent"
                                         /\ "final_response" \in DOMAIN s)
    IN  [i \in 1..Len(hits) |-> s.final_response]
        \o (IF p = "raised" THEN <<StreamError>> ELSE <<>>)

SseEventsNoDoneOnError(chunks) ==
    [i \in 1..Len(chunks) |-> "data: " \o chunks[i]]
    \o (IF chunks # <<>> /\ chunks[Len(chunks)] = StreamError
        THEN <<>> ELSE <<"data: [DONE]">>)

\* generate(): one SSE event per chunk, then the completion event.
SseEvents(chunks) ==
    [i \in 1..Len(chunks) |-> "data: " \o chunks[i]] \o <<"data: [DONE]">>

\* "".join(chunks)
RECURSIVE Concat(_)
Concat(chunks) ==
    IF chunks = <<>> THEN "" ELSE Head(chunks) \o Concat(Tail(chunks))

\* The reply to a request whose graph run has ended.  For the PortfolioBot's
\* own two methods, twin is what the other method gives for the same graph
\* run (the same message and the same answers of the services): the string
\* chat returns, or the chunks of stream_chat joined.
Reply(entry, tid, tr, s, p) ==
    CASE entry = "/chat" ->
           IF tid = NONE
           THEN \* ChatResponse(thread_id=None) fails validation; except Exception
                [NoOut EXCEPT !.status = "500",
                              !.error = "Error processing message: "
                                        \o ResponseModelError,
                              !.nodes = tr]
           ELSE [NoOut EXCEPT !.status = "200", !.response = ChatResult(p, s),
                              !.thread_id = tid, !.nodes = tr]
      [] entry = "/chat/stream" ->
           [NoOut EXCEPT !.status = "200",
                         !.events = SseEvents(StreamChunks(tr, s, p)),
                         !.nodes = tr]
      [] entry = "send_message" ->
           [NoOut EXCEPT !.status = "returned", !.response = ChatResult(p, s),
                         !.nodes = tr]
      [] entry = "stream_message" ->
           [NoOut EXCEPT !.status = "returned",
                         !.events = StreamChunks(tr, s, p), !.nodes = tr]
      [] entry = "chat" ->
           [NoOut EXCEPT !.status = "returned", !.response = ChatResult(p, s),
                         !.nodes = tr,
                         !.twin = Concat(StreamChunks(tr, s, p))]
      [] entry = "stream_chat" ->
           [NoOut EXCEPT !.status = "returned",
                         !.events = StreamChunks(tr, s, p), !.nodes = tr,
                         !.twin = ChatResult(p, s)]

Respond ==
    /\ pc \in {"END", "raised"}
    /\ api.entered
    /\ api' = [api EXCEPT !.out = Reply(api.entry, api.thread_id, trace, state, pc)]
    /\ pc' = "idle"
    /\ state' = <<>>
    /\ trace' = <<>>
    /\ last' = NoRun
    /\ UNCHANGED <<vs, bot, handle, thread, response, log, turns, tasks, llm,
                   store>>

ApiNext ==
    \/ \E up \in BOOLEAN : Startup(up)
    \/ \E up \in BOOLEAN : ServiceInitialize(up)
    \/ \E up \in BOOLEAN : GetChatService(up)
    \/ \E e \in Entries, m \in RequestTexts, x \in ThreadInputs : Request(e, m, x)
    \/ \E d \in ClsOutcomes : StepRouter(d)
    \/ \E up \in BOOLEAN, res \in SearchOutcomes : StepRetriever(up, res)
    \/ StepToolAgent
    \/ \E gen \in GenOutcomes : StepResponder(gen)
    \/ RunFault
    \/ Respond

ApiSpec == Init /\ [][ApiNext]_vars

-----------------------------------------------------------------------------
(* LLMManager and the chains.  llm.models lists the ChatOpenAI instances made
   so far by their temperature (in tenths), llm.cached is the instance
   LLMManager holds, llm.router and llm.responder are the instances the
   agents' chains were built over (0: none yet), llm.built is the most recent
   build call: the builder's default, the temperature passed (<<>>: none)
   and the instance the chain was built over. *)

MaxModels == 4

RouterTemperature == 0
ResponderTemperature == 7
Temperatures == {0, 3, 7}

\* temperature or self._temperature; an override is <<>> for None, else <<t>>.
ChainTemperature(override, default) ==
    IF override # <<>> /\ override[1] # 0 THEN override[1] ELSE default

GetChatModelRetune(l, temperature) ==
    IF l.cached = 0
    THEN [l EXCEPT !.models = Append(@, temperature), !.cached = Len(l.models) + 1]
    ELSE [l EXCEPT !.models[l.cached] = temperature]

\* LLMManager.get_chat_model: a new instance unless the cached one has the
\* temperature asked for; the instance returned is the cached one afterwards.
GetChatModel(l, temperature) ==
    IF l.cached = 0 \/ l.models[l.cached] # temperature
    THEN [l EXCEPT !.models = Append(@, temperature), !.cached = Len(l.models) + 1]
    ELSE l

\* Router.__init__: ChainBuilder(temperature=0.0).build_structured_chain(...)
NewRouter ==
    /\ Len(llm.models) < MaxModels
    /\ LET l == GetChatModel(llm, ChainTemperature(<<>>, RouterTemperature))
       IN  llm' = [l EXCEPT !.router = l.cached,
                            !.built = <<[default |-> RouterTemperature,
                                         override |-> <<>>, model |-> l.cached]>>]
    /\ UNCHANGED <<vs, bot, handle, pc, state, trace, thread, last, response, log,
                   turns, tasks, api,
                   store>>

\* ResponseAgent.__init__: ChainBuilder(temperature=0.7).build_chain(...)
NewResponder ==
    /\ Len(llm.models) < MaxModels
    /\ LET l == GetChatModel(llm, ChainTemperature(<<>>, ResponderTemperature))
       IN  llm' = [l EXCEPT !.responder = l.cached,
                            !.built = <<[default |-> ResponderTemperature,
                                         override |-> <<>>, model |-> l.cached]>>]
    /\ UNCHANGED <<vs, bot, handle, pc, state, trace, thread, last, response, log,
                   turns, tasks, api,
                   store>>

\* ChainBuilder(temperature=default).build_chain / build_structured_chain /
\* build_chat_chain(..., temperature=override): any other chain built over the
\* shared manager.
OtherChain(default, override) ==
    /\ Len(llm.models) < MaxModels
    /\ LET l == GetChatModel(llm, ChainTemperature(override, default))
       IN  llm' = [l EXCEPT !.built = <<[default |-> default,
                                         override |-> override, model |-> l.cached]>>]
    /\ UNCHANGED <<vs, bot, handle, pc, state, trace, thread, last, response, log,
                   turns, tasks, api,
                   store>>

LlmNext ==
    \/ NewRouter
    \/ NewResponder
    \/ \E t \in Temperatures, o \in {<<>>} \cup {<<x>> : x \in Temperatures} :
          OtherChain(t, o)

LlmSpec == Init /\ [][LlmNext]_vars

-----------------------------------------------------------------------------
(* The node functions called on their own (as the modules' self-tests do:
   a Router, Retriever, ToolAgent or ResponseAgent is built and run(state) is
   called directly, in a process where nothing has initialized the vector
   store). *)

Messages == {HumanMessage(c) : c \in UserTexts} \cup {AIMessage(c) : c \in GenTexts}

MaxHistory == 5

\* The i-th message of an earlier conversation.
HistoryMessage(i) ==
    CASE i % 3 = 1 -> HumanMessage("Hello!")
      [] i % 3 = 2 -> AIMessage("Hi there!")
      [] OTHER -> HumanMessage(Text4001)

\* An earlier conversation of n messages.
History(n) == [i \in 1..n |-> HistoryMessage(i)]

MessageLists == UNION {[1..n -> Messages] : n \in 0..MaxMsgs}

\* The states handed to a node: no messages key, or a message list, with or
\* without the fields the earlier nodes write.
NodeStates ==
    {<<>>}
    \cup {[messages |-> m] : m \in MessageLists}
    \cup {[messages |-> m, route_type |-> TOOL, tool_name |-> n] :
            m \in {<<HumanMessage("Hello!")>>}, n \in ToolNames \cup {"calendar"}}
    \cup {[messages |-> m, route_type |-> RAG, documents |-> FormatResults(rows)] :
            m \in {<<HumanMessage("Hello!")>>}, rows \in {<<>>, <<Row1, Row2>>}}
    \cup {[messages |-> m, route_type |-> TOOL, tool_name |-> "email",
           tool_result |-> r] :
            m \in {<<HumanMessage("Hello!")>>}, r \in {NONE, "", EmailPlaceholder}}
    \cup {[messages |-> History(n) \o <<m>>] :
            n \in 1..MaxHistory,
            m \in {HumanMessage("Hello!"), AIMessage("Hi there!")}}

NodeInit ==
    /\ vs = "none"
    /\ bot = [initialized |-> FALSE, graph |-> FALSE]
    /\ handle = FALSE
    /\ pc = "unit"
    /\ state = <<>>
    /\ trace = <<>>
    /\ thread = "default"
    /\ last = NoRun
    /\ response = NONE
    /\ log = EmptyLog
    /\ turns = 0
    /\ tasks = NoTasks
    /\ api = NoApi
    /\ llm = NoLlm
    /\ store = NoStore

\* A caller hands a state to a node.
Call(s) ==
    /\ pc = "unit"
    /\ pc' = "called"
    /\ state' = s
    /\ last' = NoRun
    /\ UNCHANGED <<vs, bot, handle, trace, thread, response, log, turns, tasks,
                   api, llm,
                   store>>

RunRouter(d) ==
    /\ pc = "called"
    /\ pc' = "unit"
    /\ LET r == RouterRun(state, d)
       IN  last' = [NoRun EXCEPT !.node = "router", !.input = state,
                                 !.update = r.update,
                                 !.cls_called = r.cls_called,
                                 !.failed = r.cls_called /\ ~d.ok,
                                 !.classified = IF r.cls_called /\ d.ok
                                                THEN d.route_type ELSE NONE,
                                 !.cls_tool = IF r.cls_called /\ d.ok
                                              THEN d.tool_name ELSE NONE,
                                 !.cls_input = IF r.cls_called
                                               THEN <<ClassificationInput(state)>>
                                               ELSE <<>>]
    /\ UNCHANGED <<vs, bot, handle, state, trace, thread, response, log, turns, tasks,
                   api, llm,
                   store>>

\* Retriever(): a new node object, its handle unset.
NewRetriever ==
    /\ pc = "unit"
    /\ handle
    /\ handle' = FALSE
    /\ last' = NoRun
    /\ UNCHANGED <<vs, bot, pc, state, trace, thread, response, log, turns, tasks,
                   api, llm,
                   store>>

RunRetriever(chromaUp, res) ==
    /\ pc = "called"
    /\ pc' = "unit"
    /\ LET r == RetrieverRun(state, handle, vs, chromaUp, res)
       IN  /\ vs' = r.vs
           /\ handle' = r.handle
           /\ last' = [NoRun EXCEPT !.node = "retriever", !.input = state,
                                    !.update = r.update, !.raised = r.raised,
                                    !.contacted = r.contacted,
                                    !.queried = r.queried, !.failed = r.failed,
                                    !.rows = IF r.queried /\ ~r.failed
                                             THEN res.rows ELSE <<>>]
    /\ UNCHANGED <<bot, state, trace, thread, response, log, turns, tasks,
                   api, llm,
                   store>>

RunToolAgent ==
    /\ pc = "called"
    /\ pc' = "unit"
    /\ LET r == ToolAgentRun(state)
       IN  last' = [NoRun EXCEPT !.node = "tool_agent", !.input = state,
                                 !.update = r.update]
    /\ UNCHANGED <<vs, bot, handle, state, trace, thread, response, log, turns, tasks,
                   api, llm,
                   store>>

RunResponder(gen) ==
    /\ pc = "called"
    /\ pc' = "unit"
    /\ LET r == ResponseAgentRun(state, gen)
       IN  last' = [NoRun EXCEPT !.node = "response_agent", !.input = state,
                                 !.update = r.update, !.failed = ~gen.ok,
                                 !.gen_call = <<r.gen_call>>]
    /\ UNCHANGED <<vs, bot, handle, state, trace, thread, response, log, turns, tasks,
                   api, llm,
                   store>>

NodeNext ==
    \/ \E s \in NodeStates : Call(s)
    \/ \E d \in ClsOutcomes : RunRouter(d)
    \/ NewRetriever
    \/ \E up \in BOOLEAN, res \in SearchOutcomes : RunRetriever(up, res)
    \/ RunToolAgent
    \/ \E gen \in GenOutcomes : RunResponder(gen)

NodeSpec == NodeInit /\ [][NodeNext]_vars

-----------------------------------------------------------------------------
(* The state fold on its own: partial updates of the shapes the caller and
   the nodes return (and one for tool_args, which NodeState declares but no
   node writes) are folded one after another into a state.  trace holds the
   starting state followed by the updates folded so far. *)

MaxFolds == 2

NodeUpdates ==
    {[messages |-> <<HumanMessage("Hello!")>>],
     [messages |-> <<AIMessage("Hi there!")>>, final_response |-> "Hi there!"],
     [messages |-> <<AIMessage("")>>, final_response |-> ""],
     [route_type |-> DIRECT],
     [route_type |-> RAG],
     [route_type |-> TOOL, tool_name |-> "email"],
     [documents |-> <<>>],
     [documents |-> FormatResults(<<Row1, Row2>>)],
     [tool_result |-> EmailPlaceholder],
     [tool_args |-> [to |-> "a@b.c"]]}

MergeInit ==
    /\ vs = "none"
    /\ bot = [initialized |-> FALSE, graph |-> FALSE]
    /\ handle = FALSE
    /\ pc = "merge"
    /\ state \in NodeStates
    /\ trace = <<state>>
    /\ thread = "default"
    /\ last = NoRun
    /\ response = NONE
    /\ log = EmptyLog
    /\ turns = 0
    /\ tasks = NoTasks
    /\ api = NoApi
    /\ llm = NoLlm
    /\ store = NoStore

Fold(u) ==
    /\ pc = "merge"
    /\ Len(trace) <= MaxFolds
    /\ state' = Merge(state, u)
    /\ trace' = Append(trace, u)
    /\ last' = [NoRun EXCEPT !.node = "merge", !.input = state, !.update = u]
    /\ UNCHANGED <<vs, bot, handle, pc, thread, response, log, turns, tasks,
                   api, llm,
                   store>>

MergeNext == \E u \in NodeUpdates : Fold(u)

MergeSpec == MergeInit /\ [][MergeNext]_vars

-----------------------------------------------------------------------------
(* VectorStore.add_documents, as the ingestion script uses it: a VectorStore
   is connected and documents are added to the collection, call after call.
   store.ids is the set of ids the collection holds, store.call the latest
   add_documents call: the ids it built, the collection before it, whether
   it reached collection.add, and what it returned.  A document is given by
   the number of chunks the splitter makes of its content. *)

MaxAdds == 2
MaxDocs == 2
ChunkCounts == {0, 1, 2}

DocumentLists == UNION {[1..n -> ChunkCounts] : n \in 0..MaxDocs}

\* What collection.add does with an id the collection already holds: the
\* client either rejects the batch or leaves the stored entry and skips the
\* new one, depending on its version.
DuplicateOutcomes == {"raise", "ignore"}

\* all_ids: f"doc_{i}_chunk_{j}" over the call's own documents and their
\* chunks, or f"doc_{i}" when chunk is False.
ChunkIds(docs, chunk) ==
    IF chunk
    THEN UNION {{"doc_" \o ToString(i - 1) \o "_chunk_" \o ToString(j - 1) :
                    j \in 1..docs[i]} : i \in 1..Len(docs)}
    ELSE {"doc_" \o ToString(i - 1) : i \in 1..Len(docs)}

\* VectorStore.add_documents on a connected store s.
AddDocumentsResult(s, docs, chunk, embOk, dup) ==
    LET ids == ChunkIds(docs, chunk)
        n == Cardinality(ids)
        call == [NoCall EXCEPT !.ids = ids, !.before = s.ids, !.chunks = n]
    IN  IF n = 0
        THEN [s EXCEPT !.call = [call EXCEPT !.status = "returned", !.returned = 0]]
        ELSE IF ~embOk
        THEN [s EXCEPT !.call = [call EXCEPT !.status = "raised"]]
        ELSE IF ids \cap s.ids # {} /\ dup = "raise"
        THEN [s EXCEPT !.call = [call EXCEPT !.status = "raised", !.reached = TRUE]]
        ELSE [s EXCEPT !.ids = @ \cup ids,
                       !.call = [call EXCEPT !.status = "returned",
                                             !.reached = TRUE, !.returned = n]]

StoreInit ==
    /\ vs = "none"
    /\ bot = [initialized |-> FALSE, graph |-> FALSE]
    /\ handle = FALSE
    /\ pc = "store"
    /\ state = <<>>
    /\ trace = <<>>
    /\ thread = "default"
    /\ last = NoRun
    /\ response = NONE
    /\ log = EmptyLog
    /\ turns = 0
    /\ tasks = NoTasks
    /\ api = NoApi
    /\ llm = NoLlm
    /\ store = NoStore

\* vs = VectorStore(); await vs.initialize()
Connect(chromaUp) ==
    /\ pc = "store"
    /\ vs = "none"
    /\ vs' = GetVectorStore(vs, chromaUp).vs
    /\ UNCHANGED <<bot, handle, pc, state, trace, thread, last, response, log,
                   turns, tasks, api, llm, store>>

AddDocuments(docs, chunk, embOk, dup) ==
    /\ pc = "store"
    /\ vs # "none"
    /\ store.adds < MaxAdds
    /\ store' = IF vs = "ready"
                THEN [AddDocumentsResult(store, docs, chunk, embOk, dup)
                        EXCEPT !.adds = @ + 1]
                ELSE \* if not self._collection: raise RuntimeError
                     [store EXCEPT !.adds = @ + 1,
                                   !.call = [NoCall EXCEPT !.status = "raised"]]
    /\ UNCHANGED <<vs, bot, handle, pc, state, trace, thread, last, response, log,
                   turns, tasks, api, llm>>

\* VectorStore.clear: the collection is deleted and created anew.
Clear ==
    /\ pc = "store"
    /\ vs = "ready"
    /\ store.ids # {}
    /\ store' = [store EXCEPT !.ids = {}, !.call = NoCall]
    /\ UNCHANGED <<vs, bot, handle, pc, state, trace, thread, last, response, log,
                   turns, tasks, api, llm>>

StoreNext ==
    \/ \E up \in BOOLEAN : Connect(up)
    \/ \E docs \in DocumentLists, chunk \in BOOLEAN, embOk \in BOOLEAN,
          dup \in DuplicateOutcomes : AddDocuments(docs, chunk, embOk, dup)
    \/ Clear

StoreSpec == StoreInit /\ [][StoreNext]_vars

-----------------------------------------------------------------------------
(* Claims *)

\* C1: in every turn the nodes run in the order router, then at most one of
\* retriever and tool_agent, then response_agent, then END; response_agent is
\* the last node before END, no node runs twice and no turn is cut short.
C1_NodeOrder ==
    /\ trace \in {<<>>, <<"router">>,
                  <<"router", "retriever">>, <<"router", "tool_agent">>,
                  <<"router", "response_agent">>,
                  <<"router", "retriever", "response_agent">>,
                  <<"router", "tool_agent", "response_agent">>}
    /\ \A i, j \in 1..Len(trace) : i # j => trace[i] # trace[j]
    /\ pc = "END" <=> (trace # <<>> /\ trace[Len(trace)] = "response_agent")
    /\ pc # "raised"

C1_Witness ==
    pc = "END" /\ trace = <<"router", "retriever", "response_agent">>

\* C2: the node after the router is chosen from the state that already holds
\* the router's update: retriever iff route_type is RAG, tool_agent iff it is
\* TOOL, response_agent iff it is DIRECT.
C2_RouteFromMergedState ==
    (last.node = "router") =>
        /\ "route_type" \in DOMAIN state
        /\ state.route_type = last.update.route_type
        /\ (pc = "retriever") <=> (state.route_type = RAG)
        /\ (pc = "tool_agent") <=> (state.route_type = TOOL)
        /\ (pc = "response_agent") <=> (state.route_type = DIRECT)

C2_Witness ==
    last.node = "router" /\ pc = "tool_agent" /\ "route_type" \notin DOMAIN last.input

\* C3: every turn that starts reaches END, after at most three node runs,
\* whatever the services answer.
C3_TurnTerminates ==
    /\ [](Len(trace) <= 3 /\ pc # "raised")
    /\ (pc = "router") ~> (pc = "END" /\ Len(trace) <= 3)

C3_Witness ==
    pc = "END" /\ Len(trace) = 3 /\ last.failed

C5_NonEmptyFinalResponse ==
    /\ pc = "END" => ("final_response" \in DOMAIN state /\ state.final_response # "")
    /\ response # ""

\* C6: when the classification call fails, the router returns exactly
\* {route_type: DIRECT}, raises nothing, response_agent runs next and the turn
\* completes with a response.
C6_ClassificationFailure ==
    [](  (last.node = "router" /\ last.cls_called /\ last.failed)
         => /\ last.update = [route_type |-> DIRECT]
            /\ ~last.raised
            /\ pc = "response_agent"
            /\ <>(pc = "END" /\ "final_response" \in DOMAIN state) )

C6_Witness ==
    last.node = "router" /\ last.cls_called /\ last.failed /\ pc = "response_agent"

\* C7: whenever the retriever or the tool agent is entered, response_agent
\* runs later in the same turn, also when the vector search fails or the
\* handle obtained is that of a store whose initialization failed.
C7_ContentNodeReachesResponder ==
    /\ [](pc # "raised")
    /\ []((last.node \in {"retriever", "tool_agent"}) => pc = "response_agent")
    /\ [](pc \in {"retriever", "tool_agent"}
            => <>(pc = "END" /\ trace[Len(trace)] = "response_agent"))

C7_Witness ==
    /\ last.node = "retriever"
    /\ last.failed
    /\ vs = "uninit"
    /\ pc = "response_agent"

\* C8: Retriever.run never raises: a failure while obtaining the handle or
\* while searching gives the update {documents: []}.
C8_RetrieverNeverRaises ==
    (last.node = "retriever") =>
        /\ ~last.raised
        /\ last.failed => last.update = [documents |-> <<>>]

\* C9: Router.run on a state with no messages, with no human message, or
\* whose latest human message is empty returns {route_type: DIRECT} and does
\* not call the classification service.
C9_RouterNoQuery ==
    (last.node = "router") =>
        LET m == IF "messages" \in DOMAIN last.input THEN last.input.messages ELSE <<>>
            humans == {i \in 1..Len(m) : m[i].role = "human"}
            noQuery == \/ m = <<>>
                       \/ humans = {}
                       \/ \E i \in humans : /\ m[i].content = ""
                                            /\ \A j \in humans : j <= i
        IN  noQuery => /\ last.update = [route_type |-> DIRECT]
                       /\ ~last.cls_called

C9_Witness ==
    /\ last.node = "router"
    /\ "messages" \in DOMAIN last.input
    /\ Len(last.input.messages) = 2
    /\ last.input.messages[1] = HumanMessage("Hello!")
    /\ last.input.messages[2] = HumanMessage("")
    /\ ~last.cls_called

\* C10: Retriever.run on a state with no (or an empty) user message returns
\* {documents: []} without any call to the vector-search backend, also on the
\* retriever's first use in the process.
C10_RetrieverNoQueryNoBackend ==
    (last.node = "retriever") =>
        LET m == IF "messages" \in DOMAIN last.input THEN last.input.messages ELSE <<>>
            humans == {i \in 1..Len(m) : m[i].role = "human"}
            noQuery == \/ humans = {}
                       \/ \E i \in humans : /\ m[i].content = ""
                                            /\ \A j \in humans : j <= i
        IN  noQuery => /\ ~last.raised
                       /\ last.update = [documents |-> <<>>]
                       /\ ~last.contacted
                       /\ ~last.queried


\* The tool name a tool step was handed: the state's tool_name, or None
\* when the key is absent.
GivenToolName == Get(last.input, "tool_name", NONE)

UnknownToolStep ==
    /\ last.node = "tool_agent"
    /\ GivenToolName \notin {"email", "calendar"}

\* C11: a tool step whose tool_name is absent or names no known
\* tool raises nothing and returns a tool_result that is exactly
\* "Unknown tool: <name>".
C11_UnknownToolExact ==
    UnknownToolStep =>
        /\ ~last.raised
        /\ last.update =
              [tool_result |->
                  "Unknown tool: "
                  \o (IF GivenToolName = NONE THEN "None" ELSE GivenToolName)]

\* C12: a responder step raises nothing and returns exactly the two fields
\* messages and final_response; messages holds one assistant message whose
\* content is final_response; when generation failed, both carry the same
\* fixed apologetic text.
C12_ResponderUpdateShape ==
    last.node = "response_agent" =>
        /\ ~last.raised
        /\ DOMAIN last.update = {"messages", "final_response"}
        /\ Len(last.update.messages) = 1
        /\ last.update.messages[1].role = "ai"
        /\ last.update.messages[1].content = last.update.final_response
        /\ last.failed =>
              last.update.final_response =
                "I apologize, but I encountered an error generating a response. Please try again or rephrase your question."

C12_Witness ==
    /\ last.node = "response_agent"
    /\ last.failed
    /\ last.update.messages = <<AIMessage(ErrorResponse)>>
    /\ last.update.final_response = ErrorResponse

\* C13: every generation call is handed all three context inputs, none of
\* them empty: the 'no documents' placeholder when the state holds no
\* documents, the 'no tools' placeholder when it holds no tool result, the
\* 'no previous conversation' placeholder when nothing precedes the latest
\* message.
C13_PlaceholdersForMissingContext ==
    last.node = "response_agent" =>
        /\ Len(last.gen_call) = 1
        /\ LET g == last.gen_call[1]
               s == last.input
           IN  /\ {"context", "tool_results", "conversation_history"}
                     \subseteq DOMAIN g
               /\ g.context # <<>>
               /\ g.tool_results \notin {"", NONE}
               /\ g.conversation_history # <<>>
               /\ Get(s, "documents", <<>>) = <<>> =>
                     g.context = <<"No relevant documents found.">>
               /\ Get(s, "tool_result", NONE) \in {"", NONE} =>
                     g.tool_results = "No tools were used."
               /\ Len(Get(s, "messages", <<>>)) <= 1 =>
                     g.conversation_history = <<"No previous conversation.">>

C13_Witness ==
    /\ last.node = "response_agent"
    /\ last.input = [messages |-> <<HumanMessage("Hello!")>>]
    /\ last.gen_call[1].context = <<NoDocuments>>
    /\ last.gen_call[1].tool_results = NoTools
    /\ last.gen_call[1].conversation_history = <<NoHistory>>

\* The messages of the states and updates seq[i..], one list after another.
RECURSIVE MessagesFrom(_, _)
MessagesFrom(seq, i) ==
    IF i > Len(seq) THEN <<>>
    ELSE Get(seq[i], "messages", <<>>) \o MessagesFrom(seq, i + 1)

\* C14: messages is append-only under the fold: after folding updates u1, u2
\* (and any further ones) into a state s, the messages are those of s followed
\* by those of u1, then those of u2, in that order.
C14_MessagesAppend ==
    pc = "merge" => Get(state, "messages", <<>>) = MessagesFrom(trace, 1)

C14_Witness ==
    /\ pc = "merge"
    /\ Len(trace) = 3
    /\ \A i \in 1..3 : Get(trace[i], "messages", <<>>) # <<>>
    /\ state.messages = trace[1].messages \o trace[2].messages \o trace[3].messages

\* C15: every field other than messages that an update names holds, after
\* the fold, exactly the update's value, whatever it held before.
C15_ReplaceFields ==
    last.node = "merge" =>
        \A k \in DOMAIN last.update \ {"messages"} :
            /\ k \in DOMAIN state
            /\ state[k] = last.update[k]

C15_Witness ==
    /\ last.node = "merge"
    /\ "route_type" \in DOMAIN last.input \cap DOMAIN last.update
    /\ last.input.route_type # last.update.route_type
    /\ state.route_type = last.update.route_type

\* The fields each node's run returns.
Writes(node) ==
    CASE node = "router" -> {"route_type", "tool_name"}
      [] node = "retriever" -> {"documents"}
      [] node = "tool_agent" -> {"tool_result"}
      [] node = "response_agent" -> {"messages", "final_response"}

\* C16: folding a node's update leaves every field the update does not name
\* as it was, and a node names only its own fields: the router route_type
\* (and tool_name), the retriever documents, the tool agent tool_result, the
\* responder messages and final_response.
C16_Frame ==
    (last.node \in Nodes /\ ~last.raised) =>
        /\ DOMAIN last.update \subseteq Writes(last.node)
        /\ DOMAIN state = DOMAIN last.input \cup DOMAIN last.update
        /\ \A k \in DOMAIN last.input \ DOMAIN last.update :
              state[k] = last.input[k]

C16_Witness ==
    /\ last.node = "retriever"
    /\ DOMAIN last.input = {"messages", "route_type"}
    /\ DOMAIN state = {"messages", "route_type", "documents"}
    /\ state.documents # <<>>
    /\ state.route_type = RAG
    /\ state.messages = last.input.messages

\* C17: in a turn with a single user message, when the classification says
\* DIRECT the router sends the turn straight to the responder, and at the end
\* of that turn the state holds exactly two messages: the user message, then
\* one assistant message.
C17_DirectTurnTwoMessages ==
    /\ (last.node = "router" /\ last.classified = DIRECT) =>
          /\ state.route_type = DIRECT
          /\ pc = "response_agent"
    /\ (pc = "END" /\ trace = <<"router", "response_agent">>) =>
          /\ Len(state.messages) = 2
          /\ state.messages[1] = last.input.messages[1]
          /\ state.messages[1].role = "human"
          /\ state.messages[2].role = "ai"
          /\ state.messages[2].content = state.final_response

C17_Witness ==
    /\ pc = "END"
    /\ trace = <<"router", "response_agent">>
    /\ state.route_type = DIRECT
    /\ state.messages = <<HumanMessage("Hello!"), AIMessage("Hi there!")>>

\* C18: whatever the interleaving of chat calls on different thread ids, the
\* state a call's nodes see holds nothing another call wrote: it starts with
\* the call's own user message, holds at most that message and the call's own
\* reply, and is at every step the state the call would have had with no
\* other call running; so the text the call returns is the same as well.
C18_ThreadIsolation ==
    \A i \in Slots :
        InFlight(i) =>
            /\ tasks[i].state = tasks[i].alone
            /\ tasks[i].state.messages[1] = HumanMessage(tasks[i].message)
            /\ Len(tasks[i].state.messages) <= 2
            /\ ChatResult(tasks[i].pc, tasks[i].state)
                 = ChatResult(tasks[i].pc, tasks[i].alone)

C18_Witness ==
    /\ tasks["a"].pc = "END"
    /\ tasks["b"].pc = "END"
    /\ tasks["a"].thread # tasks["b"].thread
    /\ tasks["a"].state.route_type = RAG
    /\ tasks["b"].state.route_type = RAG
    /\ tasks["a"].state.documents # tasks["b"].state.documents
    /\ tasks["a"].state.final_response # tasks["b"].state.final_response
    /\ tasks["a"].state = tasks["a"].alone

\* C19: chat calls on one thread id are serialized: no two calls with the
\* same thread id are ever both between their start and their completion.
C19_SameThreadSerialized ==
    \A i, j \in Slots :
        (i # j /\ InFlight(i) /\ InFlight(j)) =>
            tasks[i].thread # tasks[j].thread

\* C20: every handle get_vector_store hands out has been initialized
\* successfully: neither PortfolioBot.initialize nor the Retriever ever holds
\* the singleton while its initialize() has not completed, also after an
\* initialize() that failed.
C20_NeverUninitializedHandle ==
    /\ bot.initialized => vs = "ready"
    /\ handle => vs = "ready"

\* C21: a message that is empty or longer than 4000 characters is rejected
\* before the workflow on every entry point (422 from the routes, ValueError
\* from an initialized ChatService): the graph is not invoked and no node
\* runs; a message of exactly 4000 characters is not rejected as invalid.
C21_InvalidMessageRejected ==
    api.entry \in Routes \cup ServiceCalls =>
        /\ api.message \in {"", Text4001} =>
              /\ ~api.entered
              /\ pc = "idle"
              /\ trace = <<>>
              /\ api.out.nodes = <<>>
              /\ api.entry \in Routes => api.out.status = "422"
              /\ api.entry \in ServiceCalls =>
                    \/ api.out.status = "ValueError"
                    \/ /\ api.out.status = "RuntimeError"
                       /\ api.out.error = ServiceNotInitializedError
        /\ api.message = Text4000 =>
              /\ api.out.status \notin {"422", "ValueError"}
              /\ api.out.status \notin {"503", "RuntimeError"} => api.entered

C21_Witness ==
    /\ api.entry = "stream_message"
    /\ api.service = "ready"
    /\ api.message = Text4001
    /\ api.out.status = "ValueError"
    /\ api.out.error = LongMessageError
    /\ ~api.entered

\* C22: no raw error reaches the end user: a chat call whose graph run
\* raised returns the fixed apologetic text, and no reply of /chat or
\* /chat/stream to a request it took up carries the text of an exception.
C22_NoRawError ==
    /\ (api.fault # NONE /\ pc = "idle"
        /\ api.out.status \in {"200", "returned"}
        /\ api.entry \in {"/chat", "send_message"}) =>
          api.out.response =
            "I encountered an error processing your message. Please try again."
    /\ (api.entry \in Routes /\ api.out.status \notin {"none", "422", "503"}) =>
          /\ api.out.status = "200"
          /\ api.out.error = NONE

\* C23: every streaming response is one or more text-fragment events
\* followed by exactly one [DONE] event, its last, whether the turn
\* succeeded or failed.
C23_StreamEndsWithSentinel ==
    (api.entry = "/chat/stream" /\ api.out.status = "200") =>
        LET ev == api.out.events
        IN  /\ Len(ev) >= 2
            /\ ev[Len(ev)] = "data: [DONE]"
            /\ \A i \in 1..(Len(ev) - 1) : ev[i] # "data: [DONE]"

C23_Witness ==
    /\ api.entry = "/chat/stream"
    /\ api.out.status = "200"
    /\ api.fault # NONE
    /\ api.out.events =
         <<"data: I encountered an error. Please try again.", "data: [DONE]">>

C25_ThreadIdDefault ==
    (api.entry = "/chat" /\ api.entered) =>
        /\ api.given \in {MISSING, NONE, ""} =>
              /\ api.thread_id = "default"
              /\ thread = "default"
        /\ api.given \notin {MISSING, NONE, ""} =>
              /\ api.thread_id = api.given
              /\ thread = api.given
        /\ api.out.status # "none" =>
              /\ api.out.status = "200"
              /\ api.out.thread_id = api.thread_id

\* C26: the router's update holds tool_name only when its route_type is
\* TOOL: after a RAG or DIRECT classification, and after every fallback, the
\* update has no tool_name key, even when the classifier supplied a name.
C26_ToolNameOnlyForTool ==
    last.node = "router" =>
        /\ "tool_name" \in DOMAIN last.update => last.update.route_type = TOOL
        /\ last.classified \in {RAG, DIRECT} =>
              last.update = [route_type |-> last.classified]
        /\ last.classified = NONE => last.update = [route_type |-> DIRECT]

C26_Witness ==
    /\ last.node = "router"
    /\ last.classified = RAG
    /\ last.cls_tool = "email"
    /\ last.update = [route_type |-> RAG]

\* C27: the chat model under the Router's classification chain has
\* temperature 0.0 as long as the process lives, whatever temperatures are
\* asked of the shared LLMManager before or after the Router is built.
C27_RouterTemperatureZero ==
    llm.router # 0 => llm.models[llm.router] = 0

C27_Witness ==
    /\ llm.router # 0
    /\ llm.responder # 0
    /\ llm.router < llm.responder
    /\ llm.cached # llm.router
    /\ llm.models[llm.responder] = 7
    /\ llm.models[llm.router] = 0

\* C28: when the bot's initialization fails at startup the lifespan fails
\* and nothing is served; app.state.bot is only ever a bot whose initialize()
\* completed; a route request that finds no bot is answered 503 and does not
\* enter the workflow.
C28_NoServingWithoutBot ==
    /\ api.lifespan = "failed" =>
          /\ ~api.app_bot
          /\ ~bot.initialized
          /\ pc = "idle"
    /\ api.app_bot => (bot.initialized /\ api.lifespan = "serving")
    /\ (api.entry \in Routes /\ ~api.app_bot) =>
          /\ api.out.status \in {"422", "503"}
          /\ ~api.entered
          /\ api.out.nodes = <<>>
    /\ (api.entry \in Routes /\ api.entered) => api.app_bot

C28_Witness ==
    /\ api.lifespan = "failed"
    /\ vs = "uninit"
    /\ api.entry = "/chat"
    /\ api.message = "Hello!"
    /\ api.out.status = "503"

\* C29: when the similarity query succeeds, the documents the retriever
\* writes are the backend's results, one per result and in the backend's
\* order: document i carries the text, the metadata and the distance of
\* result i.
C29_DocumentsInBackendOrder ==
    (last.node = "retriever" /\ last.queried /\ ~last.failed) =>
        LET docs == last.update.documents
        IN  /\ DOMAIN last.update = {"documents"}
            /\ Len(docs) = Len(last.rows)
            /\ \A i \in 1..Len(docs) :
                  /\ docs[i].content = last.rows[i].text
                  /\ docs[i].metadata = last.rows[i].metadata
                  /\ docs[i].score = last.rows[i].distance

C29_Witness ==
    /\ last.node = "retriever"
    /\ last.queried
    /\ ~last.failed
    /\ last.rows = <<Row1, Row2>>
    /\ last.update.documents[1].content = "Python dev"
    /\ last.update.documents[2].content = "Contact me"

\* C30: when the state holds a non-empty document list, the context handed
\* to the generation chain holds every document's content under its number,
\* in retrieval order, and is not the 'no documents' placeholder.
C30_ContextHoldsEveryDocument ==
    (last.node = "response_agent"
     /\ Get(last.input, "documents", <<>>) # <<>>) =>
        LET docs == last.input.documents
            context == last.gen_call[1].context
        IN  /\ context # <<"No relevant documents found.">>
            /\ Len(context) = 3 * Len(docs)
            /\ \A i \in 1..Len(docs) :
                  /\ context[3 * i - 2] \in
                       {"[Document " \o ToString(i) \o "]",
                        "[Document " \o ToString(i) \o "] ("
                          \o docs[i].metadata.section \o ")"}
                  /\ context[3 * i - 1] = docs[i].content

C30_Witness ==
    /\ last.node = "response_agent"
    /\ Get(last.input, "route_type", NONE) = RAG
    /\ Len(Get(last.input, "documents", <<>>)) = 2
    /\ last.gen_call[1].context =
         <<"[Document 1] (skills)", "Python dev", "",
           "[Document 2]", "Contact me", "">>

\* C31: the route decision, the documents and the tool result live inside one
\* turn: the state a turn starts from holds the messages only, and the state
\* the responder reads holds documents only if the retriever ran in this
\* turn, a tool_result only if the tool agent ran in this turn, a tool_name
\* only with this turn's TOOL route, and a route_type only from this turn's
\* router -- whatever earlier turns, on the same or another thread, produced.
InTrace(node) == \E i \in 1..Len(trace) : trace[i] = node

C31_TransientFields ==
    /\ (pc = EntryNode /\ trace = <<>>) => DOMAIN state = {"messages"}
    /\ last.node = "response_agent" =>
          LET s == last.input
          IN  /\ "documents" \in DOMAIN s => InTrace("retriever")
              /\ "tool_result" \in DOMAIN s => InTrace("tool_agent")
              /\ "tool_name" \in DOMAIN s =>
                    (InTrace("router") /\ Get(s, "route_type", NONE) = TOOL)
              /\ "route_type" \in DOMAIN s => InTrace("router")
              /\ ~InTrace("retriever") => "documents" \notin DOMAIN s
              /\ ~InTrace("tool_agent") => "tool_result" \notin DOMAIN s

\* A second turn that goes straight to the responder after a turn in which
\* the retriever ran (its handle is set): the responder sees no documents.
C31_Witness ==
    /\ turns = 2
    /\ handle
    /\ log[thread] # <<>>
    /\ last.node = "response_agent"
    /\ trace = <<"router", "response_agent">>
    /\ DOMAIN last.input = {"messages", "route_type"}
    /\ last.gen_call[1].context = <<NoDocuments>>
    /\ last.gen_call[1].tool_results = NoTools

\* C32: the graph of create_graph is well-formed: the entry node is
\* registered; every static edge and every entry of the conditional label
\* table leads to a registered node or END; the label table is non-empty and
\* has an entry for every RouteType value; no node has both a static and a
\* conditional outgoing edge; and a run is only ever at a registered node,
\* at END, or out of the graph.
C32_GraphWellFormed ==
    /\ EntryNode \in Nodes
    /\ StaticSources \subseteq Nodes
    /\ ConditionalSources \subseteq Nodes
    /\ \A n \in StaticSources : StaticEdge(n) \in Nodes \cup {"END"}
    /\ RouteTableLabels # {}
    /\ \A l \in RouteTableLabels : RouteTable(l) \in Nodes \cup {"END"}
    /\ RouteTypes \subseteq RouteTableLabels
    /\ StaticSources \cap ConditionalSources = {}
    /\ pc \in Nodes \cup {"idle", "END", "raised"}
    /\ pc \in Nodes => NextNode(pc, state) \in Nodes \cup {"END"}

\* A run that took the conditional edge and two static edges to END.
C32_Witness ==
    /\ pc = "END"
    /\ trace = <<"router", "tool_agent", "response_agent">>
    /\ state.route_type = TOOL

\* C33: the context the router hands to the classification chain is a window
\* of the turns before the current user message: the lines of at most the 4
\* most recent messages before it, in chronological order, each content cut
\* to at most 100 characters (or the placeholder when there is none); the
\* current user message is not among them.
ContextLine(msg) ==
    (IF msg.role = "human" THEN "User" ELSE "Assistant")
    \o ": " \o (IF MessageLen(msg.content) <= ContextCut THEN msg.content
                ELSE First100(msg.content))

C33_RouterContextWindow ==
    (last.node = "router" /\ last.cls_called) =>
        LET msgs == last.input.messages
            current == Max({i \in 1..Len(msgs) : msgs[i].role = "human"})
            prior == SubSeq(msgs, 1, current - 1)
            context == last.cls_input[1].context
        IN  \E n \in 0..RouterWindow :
               /\ n <= Len(prior)
               /\ LET window == SubSeq(prior, Len(prior) - n + 1, Len(prior))
                  IN  context = IF n = 0 THEN <<NoContext>>
                                ELSE [i \in 1..n |-> ContextLine(window[i])]

\* C34: the model of a chain built by ChainBuilder has exactly the temperature
\* passed to the build call, whatever its value (0.0 included), and the
\* builder's default only when no temperature is passed.
C34_ExplicitTemperatureOverrides ==
    llm.built # <<>> =>
        LET b == llm.built[1]
        IN  llm.models[b.model] =
               IF b.override # <<>> THEN b.override[1] ELSE b.default

\* C35: while the bot's initialize() has not completed, PortfolioBot.chat and
\* stream_chat and ChatService.send_message and stream_message fail with
\* RuntimeError (whatever the message) and the graph is not invoked: no run
\* is in flight and no node has run; and a PortfolioBot whose _initialized is
\* true has its compiled graph, a failed initialize leaving it false.
C35_NoChatBeforeInitialize ==
    /\ ~bot.initialized =>
          /\ ~api.entered
          /\ pc = "idle"
          /\ trace = <<>>
          /\ turns = 0
          /\ api.entry \in BotCalls =>
                /\ api.out.status = "RuntimeError"
                /\ api.out.error = NotInitializedError
                /\ api.out.nodes = <<>>
          /\ api.entry \in ServiceCalls =>
                /\ api.out.status = "RuntimeError"
                /\ api.out.error = ServiceNotInitializedError
                /\ api.out.nodes = <<>>
    /\ bot.initialized => bot.graph
    /\ (api.lifespan = "failed" \/ api.service = "created") => ~bot.initialized
    /\ api.entered => bot.initialized

\* stream_chat on the bot of a ChatService whose initialize() failed.
C35_Witness ==
    /\ api.service = "created"
    /\ vs = "uninit"
    /\ ~bot.initialized
    /\ api.entry = "stream_chat"
    /\ api.message = "Hello!"
    /\ api.out.status = "RuntimeError"
    /\ api.out.error = NotInitializedError

\* C36: get_chat_service never hands its caller a ChatService whose
\* is_initialized is false: a call either raises or returns an initialized
\* service, also after an earlier call's initialization failed.
C36_GetChatServiceInitialized ==
    api.got \in {"none", "raised", "ready"}

\* C37: for the same message and the same answers of the services, the
\* chunks PortfolioBot.stream_chat yields, joined, are the string
\* PortfolioBot.chat returns, when the graph run succeeds and when it fails.
C37_StreamEqualsChat ==
    /\ (api.entry = "chat" /\ api.out.status = "returned") =>
          api.out.response = api.out.twin
    /\ (api.entry = "stream_chat" /\ api.out.status = "returned") =>
          Concat(api.out.events) = api.out.twin

\* C38: over add_documents calls with no clear in between, a call that hands
\* its chunks to the collection stores each under an id the collection did
\* not hold before, and a call that returns gives back the number of entries
\* it added to the collection (0, the collection unchanged, when there are
\* no chunks).
C38_FreshIdsAndCount ==
    LET c == store.call
    IN  /\ c.reached => c.ids \cap c.before = {}
        /\ c.status = "returned" =>
              /\ c.returned = Cardinality(store.ids \ c.before)
              /\ c.returned = c.chunks
              /\ c.chunks = 0 => store.ids = c.before

====
